---- MODULE Spec2Model ----
(***************************************************************************)
(* A model of pygaload.py, a client of the MegaLoad bootloader protocol    *)
(* (versions 3, 4 and 5).  Two operations are modelled:                    *)
(*                                                                         *)
(*   doConnect      the negotiation loop that reads one byte at a time     *)
(*                  from the serial link and assembles the Proc object;    *)
(*   downloadFlash  the page programmer that partitions the HEX records    *)
(*                  into pages and sends them with checksum and retry.     *)
(*                                                                         *)
(* SpecConnect runs doConnect against every byte sequence the bootloader   *)
(* can send (over the alphabet RxBytes); SpecDownload runs downloadFlash   *)
(* against every image and descriptor of bounded size and every response   *)
(* of the bootloader.                                                      *)
(***************************************************************************)
EXTENDS Integers, Sequences, FiniteSets, TLC

----------------------------------------------------------------------------
(* Bounds of the model. *)

\* the largest number of bytes the bootloader delivers in one negotiation
MaxRx == 8
\* the largest number of received bytes that leave doConnect in CONNECT
\* (noise before a sync character, garbage after one)
MaxNoise == 1
\* the wall-clock timeout of doConnect (options.Timeout), in clock ticks
Timeout == 2
\* the largest number of records of a HEX image
MaxRecs == 2
\* the largest number of data bytes of one record
MaxRecLen == 2
\* the largest start address of a record
MaxAddr == 5

----------------------------------------------------------------------------
(* The byte-code tables, pygaload.py lines 177-243. *)

Processors ==
    [c \in {65, 66, 67, 68, 69, 70, 71, 72, 73, 74, 75, 76, 77, 78, 79, 80,
            128, 129, 130, 131, 132, 133, 134, 135, 136} |->
        CASE c = 65 -> "ATmega8"      [] c = 66 -> "ATmega16"
          [] c = 67 -> "ATmega64"     [] c = 68 -> "ATmega128"
          [] c = 69 -> "ATmega32"     [] c = 70 -> "ATmega162"
          [] c = 71 -> "ATmega169"    [] c = 72 -> "ATmega8515"
          [] c = 73 -> "ATmega8535"   [] c = 74 -> "ATmega163"
          [] c = 75 -> "ATmega323"    [] c = 76 -> "ATmega48"
          [] c = 77 -> "ATmega88"     [] c = 78 -> "ATmega168"
          [] c = 79 -> "ATtiny2313"   [] c = 80 -> "ATtiny13"
          [] c = 128 -> "ATmega165"   [] c = 129 -> "ATmega3250"
          [] c = 130 -> "ATmega6450"  [] c = 131 -> "ATmega3290"
          [] c = 132 -> "ATmega6490"  [] c = 133 -> "ATmega406"
          [] c = 134 -> "ATmega640"   [] c = 135 -> "ATmega1280"
          [] c = 136 -> "ATmega2560"]

FlashSize ==
    [c \in {103, 104, 105, 108, 109, 110, 111, 112, 113, 114} |->
        CASE c = 103 -> 1024    [] c = 104 -> 2048   [] c = 105 -> 4096
          [] c = 108 -> 8192    [] c = 109 -> 16384  [] c = 110 -> 32768
          [] c = 111 -> 65536   [] c = 112 -> 2 * 65536
          [] c = 113 -> 4 * 65536                    [] c = 114 -> 40 * 1024]

\* the boot size is reported in WORDS
BootSize ==
    [c \in {97, 98, 99, 100, 101, 102} |->
        CASE c = 97 -> 128    [] c = 98 -> 256    [] c = 99 -> 512
          [] c = 100 -> 1024  [] c = 101 -> 2048  [] c = 102 -> 4096]

PageSize ==
    [c \in {81, 82, 83, 84, 85, 86} |->
        CASE c = 81 -> 32   [] c = 82 -> 64   [] c = 83 -> 128
          [] c = 84 -> 256  [] c = 85 -> 512  [] c = 86 -> 512]

EEPROMSize ==
    [c \in {46, 47, 48, 49, 50, 51, 52} |->
        CASE c = 46 -> 64    [] c = 47 -> 128   [] c = 48 -> 256
          [] c = 49 -> 512   [] c = 50 -> 1024  [] c = 51 -> 2048
          [] c = 52 -> 4096]

\* every byte value that is a code of one of the five tables
GeometryCodes ==
    DOMAIN Processors \cup DOMAIN FlashSize \cup DOMAIN BootSize
        \cup DOMAIN PageSize \cup DOMAIN EEPROMSize

----------------------------------------------------------------------------
(* The states of doConnect, pygaload.py lines 327-334. *)

CONNECT == 1
SYNCED3 == 2
SYNCED4 == 3
GOTPROC == 4
GOTFLASH == 5
GOTBOOT == 6
GOTPAGE == 7
GOTEEP == 8

(* The protocol's bytes. *)
SYNC4 == 85      \* 0x55 'U', sync character of MegaLoad 4 and 5
SYNC3 == 62      \* 0x3E '>', sync character of MegaLoad 3
REPLY3 == 60     \* 0x3C '<', the reply to '>'
READY == 33      \* 0x21 '!', flash loading begins / page written
NAK == 64        \* 0x40 '@', page not written
\* a byte with no meaning in the protocol
GARBAGE ==
    CHOOSE b \in 0 .. 255 :
        /\ b \notin {SYNC4, SYNC3, REPLY3, READY, NAK}
        /\ \A T \in {Processors, FlashSize, BootSize, PageSize, EEPROMSize} :
              b \notin DOMAIN T

\* the bytes the modelled bootloader may send during negotiation: the two
\* sync characters, '!', one code of each table (0x55 is also a page code),
\* and a byte with no meaning
RxBytes == {GARBAGE, READY, SYNC3, SYNC4, 65, 103, 97, 81, 46}

----------------------------------------------------------------------------
VARIABLES
    state,           \* doConnect: the local `state`
    P,               \* doConnect: the Proc object; "" and 0 are unset attributes
    result,          \* how doConnect ended: "running", "returned" (return P),
                     \*   "timeout" (return None), "exit" (sys.exit(1)),
                     \*   "crash" (uncaught TypeError)
    workaround_evb,  \* options.workaround_evb
    elapsed,         \* time.time() - tic, in ticks
    written,         \* every byte doConnect wrote to options.dev, in order
    rx,              \* every byte doConnect read from options.dev, in order
    datalines,       \* downloadFlash: the records (addr, data), sorted by addr
    Debug,           \* options.Debug
    pc,              \* downloadFlash: "idle" (not called), "check", "page"
                     \*   (head of the page loop), "try" (head of the retry
                     \*   loop), "end" (after the page loop), "done"
    pagenum,         \* downloadFlash: the local `pagenum`
    tries,           \* downloadFlash: the local `tries`
    cur,             \* downloadFlash: the image cursor, the locals
                     \*   datalinesix, addr, data and addrix
    towrite,         \* downloadFlash: the page buffer being sent
    wire,            \* every byte downloadFlash wrote to options.dev, in order
    txlog,           \* every page transmission: page number, try, response
    dlresult,        \* how downloadFlash ended: "running", "success"
                     \*   (return 1), "failed" (return 0), "crash" (uncaught
                     \*   exception)
    dlerror          \* the message downloadFlash printed before return 0

cvars == <<state, P, result, workaround_evb, elapsed, written, rx>>
dvars == <<datalines, Debug, pc, pagenum, tries, cur, towrite, wire, txlog,
           dlresult, dlerror>>
vars == <<cvars, dvars>>

\* Proc() with loaderversion = 0 and no other attribute (lines 345-346)
NewProc ==
    [loaderversion |-> 0, proc |-> "", flash |-> 0, boot |-> 0, page |-> 0,
     eeprom |-> 0]

\* the effect of one received byte: the new state, the new Proc, the bytes
\* written, and how the loop goes on
Outcome(st, p, w, res) == [state |-> st, P |-> p, w |-> w, res |-> res]

\* OnConnect that answers '>' with '>' instead of '<'
OnConnect_EchoSync3(p, c) ==
    IF c = SYNC4
    THEN Outcome(SYNCED4, [p EXCEPT !.loaderversion = 4], <<SYNC4>>, "running")
    ELSE IF c = SYNC3
    THEN Outcome(SYNCED3, [p EXCEPT !.loaderversion = 3], <<SYNC3>>, "running")
    ELSE Outcome(CONNECT, p, <<>>, "running")

\* OnConnect that records variant 4 for either sync character
OnConnect_AlwaysV4(p, c) ==
    IF c = SYNC4
    THEN Outcome(SYNCED4, [p EXCEPT !.loaderversion = 4], <<SYNC4>>, "running")
    ELSE IF c = SYNC3
    THEN Outcome(SYNCED3, [p EXCEPT !.loaderversion = 4], <<REPLY3>>, "running")
    ELSE Outcome(CONNECT, p, <<>>, "running")

\* state == CONNECT (lines 355-364)
OnConnect(p, c) ==
    IF c = SYNC4
    THEN Outcome(SYNCED4, [p EXCEPT !.loaderversion = 4], <<SYNC4>>, "running")
    ELSE IF c = SYNC3
    THEN Outcome(SYNCED3, [p EXCEPT !.loaderversion = 3], <<REPLY3>>, "running")
    ELSE Outcome(CONNECT, p, <<>>, "running")

\* OnSynced that treats a byte that is no processor code as an error in
\* SYNCED3 as in SYNCED4
OnSynced_Strict(st, p, c, wa, strOk) ==
    IF c \in DOMAIN Processors
    THEN Outcome(GOTPROC, [p EXCEPT !.proc = Processors[c]], <<>>, "running")
    ELSE Outcome(st, p, <<>>, "exit")

\* state in (SYNCED3, SYNCED4) (lines 366-397).  The reply to '>' in SYNCED4
\* is written as a text string, not as bytes (line 380): the serial port
\* raises TypeError on it, a transport that accepts text sends 0x3C;
\* strOk tells which.
OnSynced(st, p, c, wa, strOk) ==
    IF c \in DOMAIN Processors
    THEN Outcome(GOTPROC, [p EXCEPT !.proc = Processors[c]], <<>>, "running")
    ELSE
      LET exit4  == st = SYNCED4 /\ c # SYNC4 /\ c # SYNC3
          crash4 == st = SYNCED4 /\ c = SYNC3 /\ ~strOk
          p1 == IF st = SYNCED4 /\ c = SYNC3
                THEN [p EXCEPT !.loaderversion = 5] ELSE p
          w1 == IF st = SYNCED4 /\ c = SYNC3 THEN <<REPLY3>> ELSE <<>>
      IN  IF exit4 THEN Outcome(st, p, <<>>, "exit")
          ELSE IF crash4 THEN Outcome(st, p, <<>>, "crash")
          ELSE IF st = SYNCED3 /\ wa
          THEN IF c \in DOMAIN PageSize
               THEN Outcome(st, [p1 EXCEPT !.page = PageSize[c]], w1, "running")
               ELSE Outcome(st, p1, w1, "exit")
          ELSE Outcome(CONNECT, p1, w1, "running")

\* OnGotProc that skips a byte that is no FLASH size code
OnGotProc_Lenient(p, c) ==
    IF c \in DOMAIN FlashSize
    THEN Outcome(GOTFLASH, [p EXCEPT !.flash = FlashSize[c]], <<>>, "running")
    ELSE Outcome(GOTPROC, p, <<>>, "running")

\* state == GOTPROC (lines 399-406)
OnGotProc(p, c) ==
    IF c \in DOMAIN FlashSize
    THEN Outcome(GOTFLASH, [p EXCEPT !.flash = FlashSize[c]], <<>>, "running")
    ELSE Outcome(GOTPROC, p, <<>>, "exit")

\* OnGotFlash that stores the boot size as the table gives it, in words
OnGotFlash_Words(p, c) ==
    IF c \in DOMAIN BootSize
    THEN Outcome(GOTBOOT, [p EXCEPT !.boot = BootSize[c]], <<>>, "running")
    ELSE Outcome(GOTFLASH, p, <<>>, "exit")

\* state == GOTFLASH (lines 408-415)
OnGotFlash(p, c) ==
    IF c \in DOMAIN BootSize
    THEN Outcome(GOTBOOT, [p EXCEPT !.boot = BootSize[c] * 2], <<>>, "running")
    ELSE Outcome(GOTFLASH, p, <<>>, "exit")

\* OnGotBoot with the test of the workaround inverted
OnGotBoot_Swapped(p, c, wa) ==
    IF ~wa
    THEN IF c \in DOMAIN EEPROMSize
         THEN Outcome(GOTEEP, [p EXCEPT !.eeprom = EEPROMSize[c]], <<>>, "running")
         ELSE Outcome(GOTBOOT, p, <<>>, "exit")
    ELSE IF c \in DOMAIN PageSize
         THEN Outcome(GOTPAGE, [p EXCEPT !.page = PageSize[c]], <<>>, "running")
         ELSE Outcome(GOTBOOT, p, <<>>, "exit")

\* state == GOTBOOT (lines 417-433)
OnGotBoot(p, c, wa) ==
    IF wa
    THEN IF c \in DOMAIN EEPROMSize
         THEN Outcome(GOTEEP, [p EXCEPT !.eeprom = EEPROMSize[c]], <<>>, "running")
         ELSE Outcome(GOTBOOT, p, <<>>, "exit")
    ELSE IF c \in DOMAIN PageSize
         THEN Outcome(GOTPAGE, [p EXCEPT !.page = PageSize[c]], <<>>, "running")
         ELSE Outcome(GOTBOOT, p, <<>>, "exit")

\* state == GOTPAGE (lines 435-442)
OnGotPage(p, c) ==
    IF c \in DOMAIN EEPROMSize
    THEN Outcome(GOTEEP, [p EXCEPT !.eeprom = EEPROMSize[c]], <<>>, "running")
    ELSE Outcome(GOTPAGE, p, <<>>, "exit")

\* OnGotEep that answers '>' as OnConnect does
OnGotEep_Reply(p, c) ==
    IF c = READY THEN Outcome(GOTEEP, p, <<>>, "returned")
    ELSE IF c = SYNC3 THEN Outcome(GOTEEP, p, <<REPLY3>>, "running")
    ELSE Outcome(GOTEEP, p, <<>>, "exit")

\* state == GOTEEP (lines 444-452)
OnGotEep(p, c) ==
    IF c = READY THEN Outcome(GOTEEP, p, <<>>, "returned")
    ELSE IF c = SYNC3 THEN Outcome(GOTEEP, p, <<>>, "running")
    ELSE Outcome(GOTEEP, p, <<>>, "exit")

\* the body of the read loop for one received byte (lines 352-452)
OnByte(st, p, c, wa, strOk) ==
    CASE st = CONNECT -> OnConnect(p, c)
      [] st \in {SYNCED3, SYNCED4} -> OnSynced(st, p, c, wa, strOk)
      [] st = GOTPROC -> OnGotProc(p, c)
      [] st = GOTFLASH -> OnGotFlash(p, c)
      [] st = GOTBOOT -> OnGotBoot(p, c, wa)
      [] st = GOTPAGE -> OnGotPage(p, c)
      [] st = GOTEEP -> OnGotEep(p, c)

\* the read loop over the bytes of s, from the outcome o on, until
\* doConnect ends (lines 349-452)
RECURSIVE RunBytes(_, _, _)
RunBytes(o, s, wa) ==
    IF s = <<>> \/ o.res # "running" THEN o
    ELSE RunBytes(OnByte(o.state, o.P, Head(s), wa, TRUE), Tail(s), wa)

\* the number of bytes of s after which doConnect, started in state st, is
\* in CONNECT
RECURSIVE NoiseCount(_, _, _, _)
NoiseCount(s, st, p, wa) ==
    IF s = <<>> THEN 0
    ELSE LET o == OnByte(st, p, Head(s), wa, TRUE)
         IN  (IF o.state = CONNECT THEN 1 ELSE 0)
               + NoiseCount(Tail(s), o.state, o.P, wa)

\* the locals of downloadFlash before it is called
NoCursor == [datalinesix |-> 0, addr |-> 0, data |-> <<>>, addrix |-> 0]

\* the loop condition (line 349)
InLoop == result = "running" /\ elapsed < Timeout

InitConnect ==
    /\ state = CONNECT
    /\ P = NewProc
    /\ result = "running"
    /\ workaround_evb \in BOOLEAN
    /\ elapsed = 0
    /\ written = <<>>
    /\ rx = <<>>
    /\ datalines = <<>>
    /\ Debug = FALSE
    /\ pc = "idle"
    /\ pagenum = 0
    /\ tries = 0
    /\ cur = NoCursor
    /\ towrite = <<>>
    /\ wire = <<>>
    /\ txlog = <<>>
    /\ dlresult = "running"
    /\ dlerror = ""

\* one iteration of the loop in which dev.read(1) returns a byte, dt ticks
\* after the previous iteration
ReadByte(c, dt, strOk) ==
    /\ InLoop
    /\ Len(rx) < MaxRx
    /\ OnByte(state, P, c, workaround_evb, strOk).state = CONNECT
         => NoiseCount(rx, CONNECT, NewProc, workaround_evb) < MaxNoise
    /\ LET o == OnByte(state, P, c, workaround_evb, strOk)
       IN  /\ state' = o.state
           /\ P' = o.P
           /\ result' = o.res
           /\ written' = written \o o.w
    /\ rx' = Append(rx, c)
    /\ elapsed' = elapsed + dt
    /\ UNCHANGED <<workaround_evb, dvars>>

\* one iteration in which dev.read(1) returns nothing after its own timeout
ReadNothing ==
    /\ InLoop
    /\ elapsed' = elapsed + 1
    /\ UNCHANGED <<state, P, result, workaround_evb, written, rx, dvars>>

\* TimedOut that leaves the loop only after the timeout is exceeded
TimedOut_Strict ==
    /\ result = "running"
    /\ elapsed > Timeout
    /\ result' = "timeout"
    /\ UNCHANGED <<state, P, workaround_evb, elapsed, written, rx, dvars>>

\* the loop condition fails: return None (lines 458-461)
TimedOut ==
    /\ result = "running"
    /\ elapsed >= Timeout
    /\ result' = "timeout"
    /\ UNCHANGED <<state, P, workaround_evb, elapsed, written, rx, dvars>>

NextConnect ==
    \/ \E c \in RxBytes, dt \in {0, 1}, strOk \in BOOLEAN : ReadByte(c, dt, strOk)
    \/ ReadNothing
    \/ TimedOut

SpecConnect == InitConnect /\ [][NextConnect]_vars

\* ReadByte without the record of the bytes read and written, so that the
\* bootloader may send for ever
ReadByteLive(c, dt, strOk) ==
    /\ InLoop
    /\ LET o == OnByte(state, P, c, workaround_evb, strOk)
       IN  /\ state' = o.state
           /\ P' = o.P
           /\ result' = o.res
    /\ elapsed' = elapsed + dt
    /\ UNCHANGED <<workaround_evb, written, rx, dvars>>

\* an iteration during which the clock advances: dev.read(1) returns within
\* its own timeout, with a byte or without (lines 349-351)
TimePasses ==
    \/ ReadNothing
    \/ \E c \in RxBytes, strOk \in BOOLEAN : ReadByteLive(c, 1, strOk)

NextConnectLive ==
    \/ \E c \in RxBytes, dt \in {0, 1}, strOk \in BOOLEAN : ReadByteLive(c, dt, strOk)
    \/ ReadNothing
    \/ TimedOut

\* doConnect where every read returns and time advances
SpecConnectLive ==
    /\ InitConnect
    /\ [][NextConnectLive]_vars
    /\ WF_vars(TimePasses)
    /\ WF_vars(TimedOut)


----------------------------------------------------------------------------
(* downloadFlash, pygaload.py lines 464-591. *)

\* the number of attempts per page, range(3) (line 532)
MaxTries == 3
\* the erase value of flash
ERASED == 255
\* dev.read(1) returned nothing
NoByte == -1

\* the data bytes of the modelled images
DataBytes == {1, ERASED}

\* the responses of the modelled bootloader to a page
Responses == {READY, NAK, GARBAGE, NoByte}

\* the descriptors downloadFlash is run with: flash, boot and page sizes
\* scaled down to a few bytes, one with each precondition violated, and one
\* whose page attribute was never set
Descriptors ==
    { [loaderversion |-> 4, proc |-> "ATmega8", flash |-> d[1], boot |-> d[2],
       page |-> d[3], eeprom |-> 64] :
        d \in { <<8, 2, 2>>, <<8, 4, 4>>, <<8, 2, 4>>, <<6, 2, 4>>, <<8, 2, 0>> } }

\* the descriptor of a full-size part, as main builds it for debugging
\* (lines 657-662), and an image with a byte in each of its first two pages
FullSizeProc ==
    [loaderversion |-> 0, proc |-> "ATmega32", flash |-> 32768,
     boot |-> 512 * 2, page |-> 128, eeprom |-> 1024]

FullSizeImage == << <<0, <<1>>>>, <<199, <<1>>>> >>

\* the records (addr, data) a HEX file of the modelled size can hold
Records ==
    { <<a, d>> : a \in 0 .. MaxAddr,
                 d \in UNION { [1 .. n -> DataBytes] : n \in 1 .. MaxRecLen } }

\* readHEX returns the records sorted by start address (line 309); the
\* records of an image do not overlap
Images ==
    UNION { { img \in [1 .. n -> Records] :
               \A i \in 1 .. n - 1 : img[i][1] + Len(img[i][2]) <= img[i + 1][1] } :
            n \in 1 .. MaxRecs }

\* the end of the last record (lines 470-471)
LastAddr(lines) == lines[Len(lines)][1] + Len(lines[Len(lines)][2])

\* the pages of the flash outside the boot section (lines 477, 482)
NumPagesOf(proc) == (proc.flash \div proc.page) - (proc.boot \div proc.page)

\* BasicChecks that compares the image with the whole flash, boot section
\* included
BasicChecks_IgnoreBoot(proc, lines) ==
    IF LastAddr(lines) > proc.flash THEN "extends into bootloader"
    ELSE IF proc.page = 0 THEN "AttributeError"
    ELSE IF (proc.flash \div proc.page) * proc.page # proc.flash
    THEN "FLASH size is not an integer number of pages"
    ELSE IF NumPagesOf(proc) * proc.page + proc.boot # proc.flash
    THEN "Bootloader size is not an integer number of pages"
    ELSE ""

\* the failure of the basic checks, "" when they pass (lines 473-485);
\* "AttributeError" when proc has no page attribute
BasicChecks(proc, lines) ==
    IF LastAddr(lines) > proc.flash - proc.boot THEN "extends into bootloader"
    ELSE IF proc.page = 0 THEN "AttributeError"
    ELSE IF (proc.flash \div proc.page) * proc.page # proc.flash
    THEN "FLASH size is not an integer number of pages"
    ELSE IF NumPagesOf(proc) * proc.page + proc.boot # proc.flash
    THEN "Bootloader size is not an integer number of pages"
    ELSE ""

\* EmptyPage of zero bytes
EmptyPage_Zero(proc) == [i \in 1 .. proc.page |-> 0]

\* b'\xFF' * proc.page (line 487)
EmptyPage(proc) == [i \in 1 .. proc.page |-> ERASED]

\* page[i] = v of a Python array: a negative index counts from the end, an
\* index out of range raises IndexError (the page becomes <<>>)
PySetItem(page, i, v) ==
    IF page = <<>> THEN <<>>
    ELSE IF 0 <= i /\ i < Len(page) THEN [page EXCEPT ![i + 1] = v]
    ELSE IF i < 0 /\ -i <= Len(page) THEN [page EXCEPT ![Len(page) + i + 1] = v]
    ELSE <<>>

\* the inner copy loop (lines 512-515)
RECURSIVE CopyBytes(_, _, _, _)
CopyBytes(page, c, startAddr, endAddr) ==
    IF c.addrix < Len(c.data) /\ c.addr < endAddr /\ page # <<>>
    THEN CopyBytes(PySetItem(page, c.addr - startAddr, c.data[c.addrix + 1]),
                   [c EXCEPT !.addrix = @ + 1, !.addr = @ + 1],
                   startAddr, endAddr)
    ELSE [page |-> page, cur |-> c]

\* FillPage that leaves the loop at the end of the first record
FillPage_OneRecord(page, c, lines, startAddr, endAddr) ==
    LET r == CopyBytes(page, c, startAddr, endAddr)
        c1 == r.cur
        ix == c1.datalinesix + 1
        c2 == IF c1.addrix >= Len(c1.data)
              THEN IF ix < Len(lines)
                   THEN [datalinesix |-> ix, addr |-> lines[ix + 1][1],
                         data |-> lines[ix + 1][2], addrix |-> 0]
                   ELSE [c1 EXCEPT !.datalinesix = ix]
              ELSE c1
    IN  IF r.page = <<>> THEN r ELSE [page |-> r.page, cur |-> c2]

\* the loop that fills one page from the records (lines 511-527)
RECURSIVE FillPage(_, _, _, _, _)
FillPage(page, c, lines, startAddr, endAddr) ==
    LET r == CopyBytes(page, c, startAddr, endAddr)
        c1 == r.cur
        ix == c1.datalinesix + 1
        c2 == IF c1.addrix >= Len(c1.data)
              THEN IF ix < Len(lines)
                   THEN [datalinesix |-> ix, addr |-> lines[ix + 1][1],
                         data |-> lines[ix + 1][2], addrix |-> 0]
                   ELSE [c1 EXCEPT !.datalinesix = ix]
              ELSE c1
    IN  IF r.page = <<>> THEN r
        ELSE IF c1.addrix >= Len(c1.data) /\ ~(ix < Len(lines))
        THEN [page |-> r.page, cur |-> c2]
        ELSE IF c2.addr >= endAddr THEN [page |-> r.page, cur |-> c2]
        ELSE FillPage(r.page, c2, lines, startAddr, endAddr)

\* the sum of s[lo .. hi]; the loop of lines 545-546 adds the bytes one by
\* one, the sum is taken here by halves to keep the evaluation shallow
RECURSIVE SumRange(_, _, _)
SumRange(s, lo, hi) ==
    IF lo > hi THEN 0
    ELSE IF lo = hi THEN s[lo]
    ELSE LET mid == (lo + hi) \div 2
         IN  SumRange(s, lo, mid) + SumRange(s, mid + 1, hi)

\* checksum after the loop (lines 544-546)
SumBytes(s) == SumRange(s, 1, Len(s))

\* Checksum without the mask
Checksum_NoMask(page) == SumBytes(page)

\* the 8-bit checksum of a page, checksum & 0xFF (line 552)

Checksum(page) == SumBytes(page) % 256

\* Frame with the page number in one byte
Frame_OneByte(n, page) ==
    <<0, n % 256>> \o page \o <<Checksum(page)>>

\* the bytes of one page write: page number MSB first, the page, the
\* checksum (lines 540-542, 552)
Frame(n, page) ==
    <<(n \div 256) % 256, n % 256>> \o page \o <<Checksum(page)>>

InitDownload ==
    /\ state = GOTEEP
    /\ \/ P \in Descriptors /\ datalines \in Images
       \/ P = FullSizeProc /\ datalines = FullSizeImage
    /\ result = "returned"
    /\ workaround_evb = FALSE
    /\ elapsed = 0
    /\ written = <<>>
    /\ rx = <<>>
    /\ Debug \in BOOLEAN
    /\ pc = "check"
    /\ pagenum = 0
    /\ tries = 0
    /\ cur = NoCursor
    /\ towrite = <<>>
    /\ wire = <<>>
    /\ txlog = <<>>
    /\ dlresult = "running"
    /\ dlerror = ""

\* downloadFlash returns 0 after printing msg
Fail(msg) ==
    /\ pc' = "done"
    /\ dlresult' = "failed"
    /\ dlerror' = msg

\* downloadFlash ends by an uncaught exception
Crash(exc) ==
    /\ pc' = "done"
    /\ dlresult' = "crash"
    /\ dlerror' = exc

\* the basic checks and the set-up of the image cursor (lines 470-495)
BasicCheck ==
    /\ pc = "check"
    /\ LET err == BasicChecks(P, datalines)
       IN  IF err = "AttributeError"
           THEN Crash(err) /\ UNCHANGED cur
           ELSE IF err # ""
           THEN Fail(err) /\ UNCHANGED cur
           ELSE /\ pc' = "page"
                /\ cur' = [datalinesix |-> 0, addr |-> datalines[1][1],
                           data |-> datalines[1][2], addrix |-> 0]
                /\ UNCHANGED <<dlresult, dlerror>>
    /\ UNCHANGED <<cvars, datalines, Debug, pagenum, tries, towrite, wire, txlog>>

\* one iteration of the page loop up to the retry loop (lines 497-531), or
\* the end of the page loop
NextPage ==
    /\ pc = "page"
    /\ LET startAddr == pagenum * P.page
           endAddr == startAddr + P.page
           r == FillPage(EmptyPage(P), cur, datalines, startAddr, endAddr)
       IN  IF pagenum >= NumPagesOf(P)
           THEN /\ pc' = "end"
                /\ UNCHANGED <<pagenum, cur, towrite, dlresult, dlerror>>
           ELSE IF cur.addr >= endAddr
           THEN /\ pagenum' = pagenum + 1
                /\ UNCHANGED <<pc, cur, towrite, dlresult, dlerror>>
           ELSE IF r.page = <<>>
           THEN Crash("IndexError") /\ UNCHANGED <<pagenum, cur, towrite>>
           ELSE /\ cur' = r.cur
                /\ towrite' = r.page
                /\ IF r.page # EmptyPage(P)
                   THEN pc' = "try" /\ UNCHANGED pagenum
                   ELSE pc' = "page" /\ pagenum' = pagenum + 1
                /\ UNCHANGED <<dlresult, dlerror>>
    /\ tries' = 0
    /\ UNCHANGED <<cvars, datalines, Debug, wire, txlog>>

\* AfterResponse with n attempts per page
AfterResponseN(c, n) ==
    IF c = READY
    THEN /\ pc' = "page"
         /\ pagenum' = pagenum + 1
         /\ UNCHANGED <<tries, dlresult, dlerror>>
    ELSE IF c = NAK
    THEN IF tries + 1 < n
         THEN /\ tries' = tries + 1
              /\ UNCHANGED <<pc, pagenum, dlresult, dlerror>>
         ELSE Fail("Giving up after 3 tries") /\ UNCHANGED <<pagenum, tries>>
    ELSE IF c = NoByte
    THEN Fail("No response from bootloader") /\ UNCHANGED <<pagenum, tries>>
    ELSE Fail("Unexpected response") /\ UNCHANGED <<pagenum, tries>>

\* AfterResponse that gives up after the second 0x40
AfterResponse_TwoTries(c) == AfterResponseN(c, MaxTries - 1)

\* AfterResponse that gives up after the fourth 0x40
AfterResponse_FourTries(c) == AfterResponseN(c, MaxTries + 1)

\* AfterResponse that takes a missing response for a 0x40
AfterResponse_RetrySilence(c) ==
    AfterResponseN(IF c = NoByte THEN NAK ELSE c, MaxTries)

\* the retry loop goes on after the response c to the attempt `tries`
\* (lines 568-584)
AfterResponse(c) ==
    IF c = READY
    THEN /\ pc' = "page"
         /\ pagenum' = pagenum + 1
         /\ UNCHANGED <<tries, dlresult, dlerror>>
    ELSE IF c = NAK
    THEN IF tries + 1 < MaxTries
         THEN /\ tries' = tries + 1
              /\ UNCHANGED <<pc, pagenum, dlresult, dlerror>>
         ELSE Fail("Giving up after 3 tries") /\ UNCHANGED <<pagenum, tries>>
    ELSE IF c = NoByte
    THEN Fail("No response from bootloader") /\ UNCHANGED <<pagenum, tries>>
    ELSE Fail("Unexpected response") /\ UNCHANGED <<pagenum, tries>>

\* TryPage that sends the page a second time before it reads the response
TryPage_Pipelined(c) ==
    /\ pc = "try"
    /\ ~Debug
    /\ wire' = wire \o Frame(pagenum, towrite) \o Frame(pagenum, towrite)
    /\ txlog' = Append(txlog, [page |-> pagenum, try |-> tries, resp |-> c,
                               frame |-> Frame(pagenum, towrite)])
    /\ AfterResponse(c)
    /\ UNCHANGED <<cvars, datalines, Debug, cur, towrite>>

\* TryPage that builds the page again from the image cursor on a retry
TryPage_Rebuild(c) ==
    LET startAddr == pagenum * P.page
        page == IF tries = 0 THEN towrite
                ELSE FillPage(EmptyPage(P), cur, datalines,
                              startAddr, startAddr + P.page).page
    IN  /\ pc = "try"
        /\ ~Debug
        /\ wire' = wire \o Frame(pagenum, page)
        /\ txlog' = Append(txlog, [page |-> pagenum, try |-> tries, resp |-> c,
                                   frame |-> Frame(pagenum, page)])
        /\ AfterResponse(c)
        /\ UNCHANGED <<cvars, datalines, Debug, cur, towrite>>

\* one attempt to write the page: the page is sent and the response c is
\* read (lines 532-584, Debug off)
TryPage(c) ==
    /\ pc = "try"
    /\ ~Debug
    /\ wire' = wire \o Frame(pagenum, towrite)
    /\ txlog' = Append(txlog, [page |-> pagenum, try |-> tries, resp |-> c,
                               frame |-> Frame(pagenum, towrite)])
    /\ AfterResponse(c)
    /\ UNCHANGED <<cvars, datalines, Debug, cur, towrite>>

\* one attempt in debugging mode: the page goes to dump.txt, nothing is
\* sent and the response is '!' (lines 533-538, 548-549, 554-563)
TryPageDebug ==
    /\ pc = "try"
    /\ Debug
    /\ AfterResponse(READY)
    /\ UNCHANGED <<cvars, datalines, Debug, cur, towrite, wire, txlog>>

\* Terminate that returns success without the page number 0xFFFF
Terminate_NoSentinel ==
    /\ pc = "end"
    /\ IF Debug
       THEN Crash("AttributeError")
       ELSE /\ pc' = "done"
            /\ dlresult' = "success"
            /\ UNCHANGED dlerror
    /\ UNCHANGED <<cvars, datalines, Debug, pagenum, tries, cur, towrite, wire, txlog>>

\* the page number 0xFFFF ends the download (lines 586-591); in debugging
\* mode options has no dev attribute (line 644)
Terminate ==
    /\ pc = "end"
    /\ IF Debug
       THEN Crash("AttributeError") /\ UNCHANGED wire
       ELSE /\ wire' = wire \o <<255, 255>>
            /\ pc' = "done"
            /\ dlresult' = "success"
            /\ UNCHANGED dlerror
    /\ UNCHANGED <<cvars, datalines, Debug, pagenum, tries, cur, towrite, txlog>>

NextDownload ==
    \/ BasicCheck
    \/ NextPage
    \/ \E c \in Responses : TryPage(c)
    \/ TryPageDebug
    \/ Terminate

SpecDownload == InitDownload /\ [][NextDownload]_vars

----------------------------------------------------------------------------
(* Vocabulary of the properties of doConnect. *)

Byte == 0 .. 255

\* this step is a loop iteration that read the byte c
Received(c) == rx' = Append(rx, c)

\* the last byte read
LastRx == rx[Len(rx)]

\* the table a byte is a code of
TableOf(c) ==
    CASE c \in DOMAIN Processors -> "proc"
      [] c \in DOMAIN FlashSize -> "flash"
      [] c \in DOMAIN BootSize -> "boot"
      [] c \in DOMAIN PageSize -> "page"
      [] c \in DOMAIN EEPROMSize -> "eeprom"
      [] OTHER -> "none"

FieldNames == {"proc", "flash", "boot", "page", "eeprom"}
ProtocolOrder == <<"proc", "flash", "boot", "page", "eeprom">>
WorkaroundOrder == <<"page", "proc", "flash", "boot", "eeprom">>

\* the tables the bytes of s are codes of, in order
OrderOf(s) == [i \in 1 .. Len(s) |-> TableOf(s[i])]

\* s holds one code of each of the five tables
OneOfEach(s) ==
    /\ Len(s) = 5
    /\ \A n \in FieldNames : \E i \in 1 .. 5 : TableOf(s[i]) = n

\* the code of table n in s
CodeOf(s, n) == s[CHOOSE i \in 1 .. Len(s) : TableOf(s[i]) = n]

\* the Proc a sequence of one code per table stands for
TableValues(s, version) ==
    [loaderversion |-> version,
     proc |-> Processors[CodeOf(s, "proc")],
     flash |-> FlashSize[CodeOf(s, "flash")],
     boot |-> 2 * BootSize[CodeOf(s, "boot")],
     page |-> PageSize[CodeOf(s, "page")],
     eeprom |-> EEPROMSize[CodeOf(s, "eeprom")]]

AllFieldsSet(p) ==
    p.proc # "" /\ p.flash # 0 /\ p.boot # 0 /\ p.page # 0 /\ p.eeprom # 0

\* the bootloader sent a sync character, one code of each table, and '!'
SyncPermReady ==
    /\ Len(rx) = 7
    /\ rx[1] \in {SYNC3, SYNC4}
    /\ OneOfEach(SubSeq(rx, 2, 6))
    /\ rx[7] = READY

----------------------------------------------------------------------------
(* C4 *)

\* C4: whenever doConnect returns a Descriptor, all five geometry fields of
\* it are set, for either setting of workaround_evb.
C4_ReturnedComplete == result = "returned" => AllFieldsSet(P)

(* C5 *)

\* C5 as stated: after a sync byte, every permutation of the five geometry
\* codes followed by 0x21 makes doConnect return a Descriptor (so no prefix
\* of a permutation aborts the negotiation) whose fields are the table
\* values of the codes.
C5_AnyOrderReturns ==
    /\ ( /\ Len(rx) \in 2 .. 6
         /\ rx[1] \in {SYNC3, SYNC4}
         /\ \A i, j \in 2 .. Len(rx) :
               /\ TableOf(rx[i]) # "none"
               /\ i # j => TableOf(rx[i]) # TableOf(rx[j]) )
       => result \notin {"exit", "crash"}
    /\ SyncPermReady
       => /\ result = "returned"
          /\ P = TableValues(SubSeq(rx, 2, 6), P.loaderversion)

\* C5 amended: after a sync byte, one code of each table followed by 0x21
\* makes doConnect return a Descriptor for exactly one arrival order:
\* processor, flash, boot, page, EEPROM with workaround_evb off; page,
\* processor, flash, boot, EEPROM after sync 0x3E with workaround_evb on.
\* The returned fields are the table values of the codes, boot doubled.
C5_OneOrderReturns ==
    SyncPermReady =>
       LET codes == SubSeq(rx, 2, 6)
           accepted ==
             IF workaround_evb
             THEN rx[1] = SYNC3 /\ OrderOf(codes) = WorkaroundOrder
             ELSE OrderOf(codes) = ProtocolOrder
       IN  /\ result = "returned" <=> accepted
           /\ result = "returned"
                => P = TableValues(codes, IF rx[1] = SYNC3 THEN 3 ELSE 4)

C5_Witness ==
    /\ rx = <<SYNC4, 65, 103, 97, 81, 46, READY>>
    /\ ~workaround_evb
    /\ result = "returned"
    /\ P = [loaderversion |-> 4, proc |-> "ATmega8", flash |-> 1024,
            boot |-> 256, page |-> 32, eeprom |-> 64]

(* C6 *)

\* C6 as stated: a byte of none of the five tables, received in CONNECT,
\* SYNCED3 or SYNCED4, leaves the negotiator in CONNECT, still negotiating,
\* with the Descriptor unchanged.
C6_GarbageResyncs ==
    [][rx' # rx /\ LastRx' \notin GeometryCodes
         /\ state \in {CONNECT, SYNCED3, SYNCED4}
          => state' = CONNECT /\ result' = "running" /\ P' = P]_cvars

\* C6 amended: a byte of none of the five tables, received in CONNECT (and
\* not the sync character 0x3E) or in SYNCED3 with workaround_evb off,
\* leaves the negotiator in CONNECT, still negotiating, with the Descriptor
\* unchanged and nothing written; received in SYNCED4 (and not 0x3E) or in
\* SYNCED3 with workaround_evb on, it aborts the negotiation.
C6_GarbageResyncsOrAborts ==
    [][rx' # rx /\ LastRx' \notin GeometryCodes =>
          /\ (state = CONNECT /\ LastRx' # SYNC3)
               \/ (state = SYNCED3 /\ ~workaround_evb)
               => /\ state' = CONNECT
                  /\ result' = "running"
                  /\ P' = P
                  /\ written' = written
          /\ (state = SYNCED4 /\ LastRx' # SYNC3)
               \/ (state = SYNCED3 /\ workaround_evb)
               => /\ result' = "exit"
                  /\ P' = P
                  /\ written' = written]_cvars

C6_Witness ==
    /\ rx = <<SYNC3, GARBAGE>>
    /\ ~workaround_evb
    /\ state = CONNECT
    /\ result = "running"
    /\ P = [NewProc EXCEPT !.loaderversion = 3]
    /\ written = <<REPLY3>>

(* C7 *)

\* C7: in SYNCED4 a received 0x55 leaves the negotiator in SYNCED4 and
\* nothing is written; so 0x55 n times (n >= 1), the five codes in protocol
\* order and 0x21 give a Descriptor of variant 4.
C7_ChatterStays ==
    /\ [][Received(SYNC4) /\ state = SYNCED4
            => state' = SYNCED4 /\ written' = written /\ result' = "running"]_cvars
    /\ [](\E n \in 1 .. MaxRx :
            /\ Len(rx) = n + 6
            /\ \A i \in 1 .. n : rx[i] = SYNC4
            /\ OrderOf(SubSeq(rx, n + 1, n + 5)) = ProtocolOrder
            /\ rx[n + 6] = READY
            /\ ~workaround_evb
          => result = "returned" /\ P.loaderversion = 4)

(* C8 *)

\* C8: in SYNCED4 a received 0x3E makes the client reply 0x3C, sets the
\* variant to 5 and leaves the negotiator in SYNCED4; so 0x55, 0x3E, the
\* five codes in protocol order and 0x21 give a Descriptor of variant 5.
C8_Upgrade5 ==
    /\ [][Received(SYNC3) /\ state = SYNCED4
            => /\ state' = SYNCED4
               /\ written' = Append(written, REPLY3)
               /\ P' = [P EXCEPT !.loaderversion = 5]
               /\ result' = "running"]_cvars
    /\ []( /\ Len(rx) = 8
           /\ rx[1] = SYNC4 /\ rx[2] = SYNC3
           /\ OrderOf(SubSeq(rx, 3, 7)) = ProtocolOrder
           /\ rx[8] = READY
           /\ ~workaround_evb
          => result = "returned" /\ P.loaderversion = 5)

(* C9 *)

\* C9: in CONNECT, 0x55 is answered with exactly 0x55, sets variant 4 and
\* leads to SYNCED4; 0x3E is answered with exactly 0x3C, sets variant 3 and
\* leads to SYNCED3; every other byte value leaves state, variant and
\* descriptor unchanged and writes nothing.
C9_ConnectTransitions ==
    /\ [][rx' # rx /\ state = CONNECT =>
            /\ result' = "running"
            /\ LastRx' = SYNC4 => /\ written' = Append(written, SYNC4)
                                  /\ P' = [P EXCEPT !.loaderversion = 4]
                                  /\ state' = SYNCED4
            /\ LastRx' = SYNC3 => /\ written' = Append(written, REPLY3)
                                  /\ P' = [P EXCEPT !.loaderversion = 3]
                                  /\ state' = SYNCED3
            /\ LastRx' \notin {SYNC3, SYNC4} => /\ written' = written
                                                /\ P' = P
                                                /\ state' = CONNECT]_cvars
    /\ [](state = CONNECT /\ Len(rx) <= 2 =>
            \A c \in Byte \ {SYNC3, SYNC4} :
               OnByte(CONNECT, P, c, workaround_evb, TRUE)
                 = [state |-> CONNECT, P |-> P, w |-> <<>>, res |-> "running"])

C9_Witness ==
    /\ rx = <<GARBAGE, SYNC4>>
    /\ state = SYNCED4
    /\ written = <<SYNC4>>
    /\ P = [NewProc EXCEPT !.loaderversion = 4]

(* C10 *)

\* C10 as stated: after sync 0x3E and a processor code the variant is 3 and
\* the processor is recorded; the remaining geometry codes and 0x21 then
\* complete the negotiation with a Descriptor of variant 3.
C10_V3Completes ==
    /\ ( /\ Len(rx) \in 2 .. 6
         /\ rx[1] = SYNC3
         /\ OrderOf(SubSeq(rx, 2, Len(rx))) = SubSeq(ProtocolOrder, 1, Len(rx) - 1) )
       => /\ result \in {"running", "timeout"}
          /\ P.loaderversion = 3
          /\ P.proc = Processors[rx[2]]
    /\ ( /\ SyncPermReady
         /\ rx[1] = SYNC3
         /\ OrderOf(SubSeq(rx, 2, 6)) = ProtocolOrder )
       => result = "returned" /\ P = TableValues(SubSeq(rx, 2, 6), 3)

\* C10 amended: the same, when workaround_evb is off.
C10_V3CompletesNoWorkaround == ~workaround_evb => C10_V3Completes

C10_Witness ==
    /\ rx = <<SYNC3, 65, 103, 97, 81, 46, READY>>
    /\ ~workaround_evb
    /\ result = "returned"
    /\ P.loaderversion = 3
    /\ P.proc = "ATmega8"

----------------------------------------------------------------------------
(* Vocabulary of the properties of downloadFlash. *)

\* the transmissions of page p, as indices of txlog
TxOf(p) == {i \in 1 .. Len(txlog) : txlog[i].page = p}

\* the transmissions of page p that were answered with 0x40
NaksOf(p) == {i \in TxOf(p) : txlog[i].resp = NAK}

PagesSent == {txlog[i].page : i \in 1 .. Len(txlog)}

\* one of the three basic checks of downloadFlash does not hold
PreconditionViolated ==
    \/ LastAddr(datalines) > P.flash - P.boot
    \/ P.page # 0 /\ P.flash % P.page # 0
    \/ P.page # 0 /\ P.boot % P.page # 0

(* C1 *)

\* C1: a page answered with 0x40 k times (k = 0, 1, 2) and then 0x21 is
\* transmitted exactly k + 1 times: after each of the k 0x40 the client is
\* still running and sends the same page again, after the 0x21 it sends
\* only higher pages; a download whose last response is 0x21, after only
\* 0x40 and 0x21 responses, returns success.
C1_RetryUntilAck ==
    /\ \A i \in 1 .. Len(txlog) :
         LET p == txlog[i].page
             k == Cardinality({j \in NaksOf(p) : j < i})
         IN  /\ txlog[i].resp = NAK /\ k < 2 =>
                  IF i < Len(txlog)
                  THEN txlog[i + 1].page = p
                  ELSE /\ dlresult = "running"
                       /\ pc = "try"
                       /\ pagenum = p
                       /\ towrite # <<>>
             /\ txlog[i].resp = READY =>
                  /\ k <= 2
                  /\ Cardinality(TxOf(p)) = k + 1
                  /\ \A j \in 1 .. Len(txlog) :
                        (j < i => txlog[j].page <= p) /\ (j > i => txlog[j].page > p)
                  /\ i = Len(txlog) => pagenum > p /\ dlresult # "failed"
    /\ ( /\ pc = "done"
         /\ txlog # <<>>
         /\ \A i \in 1 .. Len(txlog) : txlog[i].resp \in {READY, NAK}
         /\ \A p \in PagesSent : \E i \in TxOf(p) : txlog[i].resp = READY )
       => dlresult = "success"

\* a page answered 0x40, 0x40, 0x21, a later page sent, and success
C1_Witness ==
    /\ dlresult = "success"
    /\ \E i \in 1 .. Len(txlog) - 3 :
         /\ txlog[i].page = txlog[i + 1].page
         /\ txlog[i].page = txlog[i + 2].page
         /\ txlog[i].resp = NAK
         /\ txlog[i + 1].resp = NAK
         /\ txlog[i + 2].resp = READY
         /\ Cardinality(TxOf(txlog[i].page)) = 3
         /\ txlog[i + 3].page > txlog[i].page

(* C2 *)

\* C2: no page number is transmitted more than 3 times; when all three
\* transmissions of a page are answered with 0x40 the download returns
\* failure and no page with a higher number is transmitted.
C2_ThreeTriesThenAbort ==
    \A p \in PagesSent :
       /\ Cardinality(TxOf(p)) <= 3
       /\ Cardinality(NaksOf(p)) = 3 =>
            /\ pc = "done"
            /\ dlresult = "failed"
            /\ \A q \in PagesSent : q <= p

\* page 0 was refused three times although page 1 holds data
C2_Witness ==
    /\ Cardinality(NaksOf(0)) = 3
    /\ dlresult = "failed"
    /\ dlerror = "Giving up after 3 tries"
    /\ P.page = 2
    /\ \E i \in 1 .. Len(datalines) :
         datalines[i][1] \in {2, 3} /\ datalines[i][2][1] # ERASED

(* C3 *)

\* C3: when the image extends past flash_size - boot_size, or flash_size
\* or boot_size is no multiple of page_size, downloadFlash returns failure
\* and no byte at all is written to the serial link.
C3_ChecksBeforeWire ==
    PreconditionViolated =>
       /\ wire = <<>>
       /\ txlog = <<>>
       /\ pc \in {"check", "done"}
       /\ pc = "done" => dlresult = "failed"

\* an image that extends into the boot section was refused
C3_Witness ==
    /\ pc = "done"
    /\ dlresult = "failed"
    /\ dlerror = "extends into bootloader"
    /\ LastAddr(datalines) > P.flash - P.boot
    /\ P.page # 0 /\ P.flash % P.page = 0 /\ P.boot % P.page = 0
    /\ ~Debug
    /\ wire = <<>>

----------------------------------------------------------------------------
(* More properties of doConnect. *)

SomeFieldSet(p) ==
    p.proc # "" \/ p.flash # 0 \/ p.boot # 0 \/ p.page # 0 \/ p.eeprom # 0

\* the codes of the geometry fields that p has not set
UnsetCodes(p) ==
    (IF p.proc = "" THEN DOMAIN Processors ELSE {})
      \cup (IF p.flash = 0 THEN DOMAIN FlashSize ELSE {})
      \cup (IF p.boot = 0 THEN DOMAIN BootSize ELSE {})
      \cup (IF p.page = 0 THEN DOMAIN PageSize ELSE {})
      \cup (IF p.eeprom = 0 THEN DOMAIN EEPROMSize ELSE {})

(* C11 *)

\* the states in which the processor is recorded and a size code is awaited
AwaitingSize == {GOTPROC, GOTFLASH, GOTBOOT, GOTPAGE}

\* the codes the state accepts
ExpectedCodes(st, wa) ==
    CASE st = GOTPROC -> DOMAIN FlashSize
      [] st = GOTFLASH -> DOMAIN BootSize
      [] st = GOTBOOT -> IF wa THEN DOMAIN EEPROMSize ELSE DOMAIN PageSize
      [] st = GOTPAGE -> DOMAIN EEPROMSize

\* C11 as stated: once at least one geometry field is recorded and another
\* is awaited, a received byte that is no code of a still-unset field aborts
\* the negotiation at once: nothing is written, no Descriptor is returned
\* and the abort is not the timeout.
C11_UnsetFieldAbort ==
    [][ /\ rx' # rx
        /\ SomeFieldSet(P)
        /\ ~AllFieldsSet(P)
        /\ LastRx' \notin UnsetCodes(P)
        => /\ result' = "exit"
           /\ written' = written
           /\ P' = P ]_vars

\* C11, amended: in GOTPROC, GOTFLASH, GOTBOOT and GOTPAGE a field is
\* recorded and the awaited one is unset, and a received byte that is no
\* code of the awaited field (so every byte that is no code of an unset
\* field) ends doConnect with the fatal exit: nothing is written, the Proc is
\* left as it was, and no step follows the exit.
C11_BadCodeAborts ==
    [][ /\ result # "exit"
        /\ state \in AwaitingSize
             => /\ SomeFieldSet(P)
                /\ ~AllFieldsSet(P)
                /\ ExpectedCodes(state, workaround_evb) \subseteq UnsetCodes(P)
        /\ /\ rx' # rx
           /\ state \in AwaitingSize
           /\ \/ LastRx' \notin ExpectedCodes(state, workaround_evb)
              \/ LastRx' \notin UnsetCodes(P)
           => /\ result' = "exit"
              /\ written' = written
              /\ P' = P
              /\ state' = state ]_vars

C11_Witness ==
    /\ result = "exit"
    /\ state = GOTFLASH
    /\ rx = <<SYNC4, 65, 103, GARBAGE>>
    /\ P.flash = 1024
    /\ P.boot = 0
    /\ written = <<SYNC4>>

(* C12 *)

\* C12: once all five geometry fields are set, a received 0x3E changes
\* nothing and is not answered, and doConnect returns the Descriptor, as it
\* stands, exactly when 0x21 is received; it does not return on any other
\* byte.
C12_ReadyReturns ==
    [][ /\ rx' # rx
        /\ AllFieldsSet(P)
        => /\ state = GOTEEP
           /\ LastRx' = SYNC3
                => /\ state' = state
                   /\ P' = P
                   /\ written' = written
                   /\ result' = "running"
           /\ result' = "returned" <=> LastRx' = READY
           /\ result' = "returned" => P' = P /\ written' = written ]_vars

C12_Witness ==
    /\ result = "returned"
    /\ rx = <<SYNC4, 65, 103, 97, 81, 46, SYNC3, READY>>
    /\ written = <<SYNC4>>
    /\ AllFieldsSet(P)

(* C13 *)

\* C13: when every read returns and time advances, doConnect terminates
\* whatever the bootloader sends; when the timeout has elapsed and the
\* negotiation is not complete, it reads no more and returns the timeout
\* failure, with no Descriptor.
C13_Terminates ==
    /\ <>(result # "running")
    /\ [](result = "running" /\ elapsed >= Timeout => <>(result = "timeout"))
    /\ [][ elapsed >= Timeout
           => /\ result = "running"
              /\ result' = "timeout"
              /\ UNCHANGED <<state, P, elapsed>> ]_vars

C13_Witness ==
    /\ result = "timeout"
    /\ elapsed = Timeout
    /\ state = GOTFLASH
    /\ P.flash # 0

----------------------------------------------------------------------------
(* More properties of downloadFlash. *)

\* the byte the image defines at address a, 0xFF where it defines none
ImageAt(a) ==
    IF \E i \in 1 .. Len(datalines) :
          datalines[i][1] <= a /\ a < datalines[i][1] + Len(datalines[i][2])
    THEN LET i == CHOOSE i \in 1 .. Len(datalines) :
                    datalines[i][1] <= a /\ a < datalines[i][1] + Len(datalines[i][2])
         IN  datalines[i][2][a - datalines[i][1] + 1]
    ELSE ERASED

\* the content of page p of the image
ImagePage(p) == [i \in 1 .. P.page |-> ImageAt(p * P.page + i - 1)]

\* the pages outside the boot section that hold a byte other than 0xFF
NonEmptyPages ==
    {p \in 0 .. NumPagesOf(P) - 1 : \E i \in 1 .. P.page : ImagePage(p)[i] # ERASED}

\* the length of a page write on the wire
FrameLen == P.page + 3

\* the number of whole page writes on the wire
WireFrames == Len(wire) \div FrameLen

\* the k-th page write on the wire
WireFrame(k) == SubSeq(wire, (k - 1) * FrameLen + 1, k * FrameLen)

\* the page number of the k-th page write on the wire
WirePageNum(k) == WireFrame(k)[1] * 256 + WireFrame(k)[2]

AllAcked == \A i \in 1 .. Len(txlog) : txlog[i].resp = READY

(* C14 *)

\* C14: after a successful run in which every page write was answered with
\* 0x21, the wire holds one page write for each page outside the boot
\* section that is not all 0xFF, in strictly ascending order of page number,
\* then 0xFF 0xFF and nothing else; no page that is all 0xFF was written.
C14_NonEmptyPagesAscending ==
    dlresult = "success" /\ AllAcked
    => /\ Len(wire) = WireFrames * FrameLen + 2
       /\ SubSeq(wire, Len(wire) - 1, Len(wire)) = <<255, 255>>
       /\ WireFrames = Cardinality(NonEmptyPages)
       /\ {WirePageNum(k) : k \in 1 .. WireFrames} = NonEmptyPages
       /\ \A k \in 1 .. WireFrames - 1 : WirePageNum(k) < WirePageNum(k + 1)
       /\ \A k \in 1 .. WireFrames :
            SubSeq(WireFrame(k), 3, FrameLen - 1) # EmptyPage(P)

C14_Witness ==
    /\ dlresult = "success"
    /\ AllAcked
    /\ P = FullSizeProc
    /\ Len(wire) = 264
    /\ WirePageNum(1) = 0
    /\ WirePageNum(2) = 1
    /\ NumPagesOf(P) = 248

(* C15 *)

\* C15: every page write on the wire carries exactly page_size bytes, and
\* byte i of them is the byte the image defines at address p * page_size + i,
\* 0xFF where the image defines none, whatever the records of the image are
\* and wherever they cross a page boundary.
C15_PageIsImage ==
    /\ \A k \in 1 .. WireFrames :
         /\ Len(WireFrame(k)) = P.page + 3
         /\ SubSeq(WireFrame(k), 3, P.page + 2) = ImagePage(WirePageNum(k))
    /\ \A i \in 1 .. Len(txlog) :
         /\ Len(txlog[i].frame) = P.page + 3
         /\ \A j \in 1 .. P.page :
              txlog[i].frame[j + 2] = ImageAt(txlog[i].page * P.page + j - 1)
    /\ pc = "try" => towrite = ImagePage(pagenum)

\* a record that crosses a page boundary, and a page filled from two records
C15_Witness ==
    /\ dlresult = "success"
    /\ P.page = 2
    /\ datalines = << <<1, <<1, 1>>>>, <<4, <<1>>>> >>
    /\ WireFrames = 3
    /\ SubSeq(WireFrame(1), 3, 4) = <<ERASED, 1>>
    /\ SubSeq(WireFrame(2), 3, 4) = <<1, ERASED>>

(* C16 *)

\* the sum of the bytes of s, value by value
RECURSIVE ValueSum(_, _)
ValueSum(s, V) ==
    IF V = {} THEN 0
    ELSE LET v == CHOOSE v \in V : TRUE
         IN  v * Cardinality({i \in DOMAIN s : s[i] = v}) + ValueSum(s, V \ {v})

ByteSum(s) == ValueSum(s, {s[i] : i \in DOMAIN s})

\* C16: a page write is the high byte of the page number, its low byte, the
\* page_size bytes of the page, and one checksum byte equal to the sum of
\* the page bytes modulo 256: 0 for a page of zeros, 0 for 256 bytes 0x01.
C16_FrameLayout ==
    /\ WireFrames = Len(txlog) \/ dlresult = "success"
    /\ \A k \in 1 .. Len(txlog) :
         LET f == WireFrame(k)
             p == txlog[k].page
         IN  /\ Len(f) = P.page + 3
             /\ f = txlog[k].frame
             /\ f[1] = (p \div 256) % 256
             /\ f[2] = p % 256
             /\ f[1] * 256 + f[2] = p
             /\ f[P.page + 3] \in Byte
             /\ f[P.page + 3] = ByteSum(SubSeq(f, 3, P.page + 2)) % 256
    /\ pc = "check"
         => /\ Checksum([i \in 1 .. 4 |-> 0]) = 0
            /\ Checksum([i \in 1 .. 256 |-> 1]) = 0
            /\ Checksum([i \in 1 .. 255 |-> 1]) = 255
            /\ Frame(258, <<1, ERASED>>) = <<1, 2, 1, ERASED, 0>>

\* a page write whose sum of bytes exceeds one byte
C16_Witness ==
    \E k \in 1 .. Len(txlog) :
        /\ txlog[k].frame = <<0, 0, 1, ERASED, ERASED, ERASED, 254>>
        /\ WireFrame(k) = txlog[k].frame

(* C17 *)

\* C17: a page write answered with a byte other than 0x21 and 0x40, or not
\* answered at all, is the last thing downloadFlash sends: the download has
\* failed, the page is not sent again, no other page and no terminator
\* follow, whether it was the first, second or third attempt of the page.
C17_BadResponseFails ==
    \A i \in 1 .. Len(txlog) :
        txlog[i].resp \notin {READY, NAK}
        => /\ i = Len(txlog)
           /\ pc = "done"
           /\ dlresult = "failed"
           /\ dlerror = IF txlog[i].resp = NoByte
                        THEN "No response from bootloader"
                        ELSE "Unexpected response"
           /\ Len(wire) = i * FrameLen
           /\ WireFrame(i) = txlog[i].frame
           /\ pagenum = txlog[i].page
           /\ txlog[i].try \in 0 .. MaxTries - 1

\* no response to the third attempt of the second page sent
C17_Witness ==
    /\ Len(txlog) = 4
    /\ txlog[1].resp = READY
    /\ txlog[2].resp = NAK
    /\ txlog[3].resp = NAK
    /\ txlog[4].resp = NoByte
    /\ txlog[4].try = 2
    /\ dlresult = "failed"

(* C18 *)

\* C18: doConnect writes only in reply to a sync byte, one byte each: 0x55
\* to the 0x55 that starts a negotiation, 0x3C to the 0x3E that starts one
\* and to the 0x3E by which a variant-4 bootloader announces variant 5; a
\* byte received in any other state, a geometry code among them, causes no
\* write.
C18_OneReplyPerSync ==
    [][ /\ written' # written => rx' # rx
        /\ rx' # rx
           => written' = written \o
                (IF state = CONNECT /\ LastRx' = SYNC4 THEN <<SYNC4>>
                 ELSE IF state \in {CONNECT, SYNCED4} /\ LastRx' = SYNC3
                 THEN <<REPLY3>>
                 ELSE <<>>) ]_vars

(* C19 *)

\* the Descriptor of the table values of the codes, boot size in bytes
DescriptorOf(version, cp, cf, cb, cg, ce) ==
    [loaderversion |-> version,
     proc |-> Processors[cp],
     flash |-> FlashSize[cf],
     boot |-> BootSize[cb] + BootSize[cb],
     page |-> IF cg \in {85, 86} THEN 512 ELSE PageSize[cg],
     eeprom |-> EEPROMSize[ce]]

\* C19 as stated: a sync byte, one code of each table in the order
\* processor, flash, boot, page, EEPROM, and 0x21 return a Descriptor that
\* holds the table values of the codes, the boot size as twice the word
\* count of the table, and 512 for both page codes 0x55 and 0x56.
C19_TableValues ==
    /\ ( /\ Len(rx) \in 1 .. 6
         /\ rx[1] \in {SYNC3, SYNC4}
         /\ OrderOf(SubSeq(rx, 2, Len(rx))) = SubSeq(ProtocolOrder, 1, Len(rx) - 1) )
       => result \in {"running", "timeout"}
    /\ ( /\ SyncPermReady
         /\ OrderOf(SubSeq(rx, 2, 6)) = ProtocolOrder )
       => /\ result = "returned"
          /\ P = DescriptorOf(IF rx[1] = SYNC3 THEN 3 ELSE 4,
                              rx[2], rx[3], rx[4], rx[5], rx[6])

\* C19 amended: the same, when workaround_evb is off; and so for every code
\* of the five tables, fed to the read loop from its initial state.
C19_TableValuesNoWorkaround ==
    ~workaround_evb
    => /\ C19_TableValues
       /\ rx = <<>> /\ elapsed = 0
          => \A sync \in {SYNC3, SYNC4}, cp \in DOMAIN Processors,
                cf \in DOMAIN FlashSize, cb \in DOMAIN BootSize,
                cg \in DOMAIN PageSize, ce \in DOMAIN EEPROMSize :
               LET o == RunBytes(Outcome(state, P, <<>>, result),
                                 <<sync, cp, cf, cb, cg, ce, READY>>,
                                 workaround_evb)
               IN  /\ o.res = "returned"
                   /\ o.P = DescriptorOf(IF sync = SYNC3 THEN 3 ELSE 4,
                                         cp, cf, cb, cg, ce)

C19_Witness ==
    /\ rx = <<SYNC4, 65, 103, 97, 85, 46, READY>>
    /\ ~workaround_evb
    /\ result = "returned"
    /\ P.boot = 256
    /\ P.page = 512
    /\ P.flash = 1024
    /\ P.eeprom = 64

(* C20 *)

\* C20: all the writes of one page number in a download, the first and each
\* one repeated after 0x40, carry the same page number, the same page bytes
\* and the same checksum, although the image cursor is past the page by
\* then.
C20_RetriesIdentical ==
    \A i, j \in 1 .. Len(txlog) :
        txlog[i].page = txlog[j].page
        => /\ txlog[i].frame = txlog[j].frame
           /\ WireFrame(i) = WireFrame(j)
           /\ WirePageNum(i) = txlog[i].page

\* a page written three times while the cursor is in the next page
C20_Witness ==
    /\ Len(txlog) = 3
    /\ txlog[1].resp = NAK
    /\ txlog[2].resp = NAK
    /\ txlog[3].resp = READY
    /\ txlog[1].page = 0
    /\ txlog[3].page = 0
    /\ txlog[3].try = 2
    /\ cur.addr >= P.page
    /\ cur.datalinesix = 1
    /\ WireFrame(3) = WireFrame(1)

(* C21 *)

\* C21: page writes are not pipelined.  Every step that writes to the
\* device either writes one page (page number, page, checksum) and reads
\* one response to it, or writes 0xFF 0xFF, reads nothing and ends the
\* download; no response is read without a page written before it, so the
\* wire always holds one page write per response read, plus the terminator
\* after a success.
C21_NoPipelining ==
    [][ /\ Len(wire) = Len(txlog) * FrameLen
        /\ wire' # wire \/ txlog' # txlog
           => \/ /\ pc = "try"
                 /\ Len(txlog') = Len(txlog) + 1
                 /\ SubSeq(txlog', 1, Len(txlog)) = txlog
                 /\ wire' = wire \o txlog'[Len(txlog')].frame
                 /\ Len(wire') = Len(wire) + FrameLen
                 /\ txlog'[Len(txlog')].resp \in Responses
              \/ /\ pc = "end"
                 /\ txlog' = txlog
                 /\ wire' = wire \o <<255, 255>>
                 /\ pc' = "done"
                 /\ dlresult' = "success" ]_vars

\* two pages written, each answered once, then the terminator
C21_Witness ==
    /\ dlresult = "success"
    /\ Len(txlog) = 2
    /\ txlog[1].page # txlog[2].page
    /\ Len(wire) = 2 * FrameLen + 2
    /\ wire = txlog[1].frame \o txlog[2].frame \o <<255, 255>>

(* C22 *)

\* the wire holds 0xFF 0xFF after the page writes
TerminatorWritten ==
    /\ Len(wire) = Len(txlog) * FrameLen + 2
    /\ SubSeq(wire, Len(wire) - 1, Len(wire)) = <<255, 255>>

\* C22: the terminator 0xFF 0xFF is on the wire exactly when downloadFlash
\* has returned success; it is then the last two bytes of the wire, written
\* once, and every page that is not all 0xFF has been written and answered
\* with 0x21 before it; when downloadFlash fails (a basic check, an
\* unexpected response, no response, three 0x40) or is still running, the
\* wire holds the page writes only.
C22_TerminatorIffSuccess ==
    /\ dlresult = "success" <=> TerminatorWritten
    /\ dlresult # "success" => Len(wire) = Len(txlog) * FrameLen
    /\ dlresult = "success"
       => /\ pc = "done"
          /\ txlog # <<>> => txlog[Len(txlog)].resp = READY
          /\ \A p \in NonEmptyPages :
               \E i \in TxOf(p) : txlog[i].resp = READY
    /\ dlresult = "failed"
       => /\ dlerror \in {"extends into bootloader",
                          "FLASH size is not an integer number of pages",
                          "Bootloader size is not an integer number of pages",
                          "Unexpected response", "No response from bootloader",
                          "Giving up after 3 tries"}
          /\ ~TerminatorWritten

\* a success after a page was repeated
C22_Witness ==
    /\ dlresult = "success"
    /\ TerminatorWritten
    /\ Len(txlog) = 3
    /\ txlog[1].resp = NAK
    /\ txlog[2].resp = READY
    /\ txlog[3].resp = READY

(* C23 *)

\* the descriptors doConnect can build from the code tables
TableDescriptors ==
    { [loaderversion |-> 4, proc |-> "ATmega8", flash |-> FlashSize[cf],
       boot |-> BootSize[cb] * 2, page |-> PageSize[cg], eeprom |-> 64] :
        cf \in DOMAIN FlashSize, cb \in DOMAIN BootSize, cg \in DOMAIN PageSize }

\* the page number a page write carries, read back from its first two bytes
PageNumOf(f) == f[1] * 256 + f[2]

\* C23: every page number written is below the number of pages outside the
\* boot section, is carried by the two bytes of the page write without
\* truncation, and is not 0xFFFF; and for every flash, boot and page size of
\* the code tables that passes the basic checks, this is so for every page
\* number the page loop can reach.
C23_PageNumberInRange ==
    /\ \A i \in 1 .. Len(txlog) :
         /\ txlog[i].page \in 0 .. NumPagesOf(P) - 1
         /\ txlog[i].page * P.page + P.page <= P.flash - P.boot
         /\ PageNumOf(WireFrame(i)) = txlog[i].page
         /\ PageNumOf(WireFrame(i)) # 65535
    /\ P = FullSizeProc /\ pc = "check"
       => \A d \in TableDescriptors :
            BasicChecks(d, <<<<0, <<1>>>>>>) = ""
            => /\ NumPagesOf(d) \in 1 .. 65535
               /\ NumPagesOf(d) * d.page = d.flash - d.boot
               /\ \A n \in 0 .. NumPagesOf(d) - 1 :
                    /\ PageNumOf(Frame(n, <<>>)) = n
                    /\ SubSeq(Frame(n, <<>>), 1, 2) # <<255, 255>>

\* the second page of a full-size part has been written
C23_Witness ==
    /\ P = FullSizeProc
    /\ P.flash = FlashSize[110]
    /\ P.boot = BootSize[99] * 2
    /\ P.page = PageSize[83]
    /\ Len(txlog) = 2
    /\ txlog[2].page = 1
    /\ PageNumOf(WireFrame(2)) = 1
    /\ NumPagesOf(P) = 248

====
